---- MODULE Spec2Model ----
(***************************************************************************)
(* Vacuum World planner (planner.py): uniform-cost and depth-first search  *)
(* over (position, remaining dirty cells) states of a grid world.          *)
(*                                                                         *)
(* One behaviour is one run of the program: the first step is main()       *)
(* reading the world file and ucs()/dfs() initialising its locals; every   *)
(* later step is one iteration of the search loop, or the code after it.   *)
(***************************************************************************)
EXTENDS Integers, Sequences, FiniteSets, TLC

\* Bounds of the model: the worlds have at most MaxCells cells
\* (rows * cols <= MaxCells) and at most MaxDirty '*' cells.
MaxCells == 6
MaxDirty == 2

VARIABLES
    cols,       \* number of columns of the world file
    rows,       \* number of rows of the world file
    world,      \* the grid: world[r][c] \in {"_", "#", "*"}
    start,      \* the RobotState main() builds from the world file
    algorithm,  \* sys.argv[1]: "uniform-cost" or "depth-first"
    pq,         \* ucs: the heap of (len(path), RobotState) entries
    stack,      \* dfs: the stack of RobotStates
    explored,   \* the set of (position, dirty_cells) keys
    exp,        \* nodes expanded
    gen,        \* nodes generated
    pc,         \* "main" | "search" | "returned" (return, line 91/137) | "exited" (sys.exit(1))
    out,        \* what the run has printed: a sequence of result records
    expanded,   \* history: the RobotStates popped so far, in pop order
    inserted,   \* history: the keys of the RobotStates put into pq/stack so far
    pushed,     \* history: the successors pushed so far, in push order, each
                \*          with the number (by) of the expansion that pushed it
    priorities  \* history: ucs, the stored priorities of the entries popped so far

vars == <<cols, rows, world, start, algorithm, pq, stack, explored, exp, gen,
          pc, out, expanded, inserted, pushed, priorities>>

----------------------------------------------------------------------------
\* RobotState and its key

RobotState(position, dirty_cells, path) ==
    [position |-> position, dirty_cells |-> dirty_cells, path |-> path]

\* an order that prefers the state with more remaining dirty cells
StateLessMoreDirty(a, b) == Cardinality(a.dirty_cells) > Cardinality(b.dirty_cells)

\* RobotState.__lt__
StateLess(a, b) == Cardinality(a.dirty_cells) < Cardinality(b.dirty_cells)

\* a key that leaves the remaining dirty cells out
KeyPositionOnly(s) == <<s.position>>

\* the tuple the code puts into explored
Key(s) == <<s.position, s.dirty_cells>>

\* directions with the offsets of "E" and "W" mixed up
directionsMixed == << <<"N", -1, 0>>, <<"S", 1, 0>>, <<"E", 0, -1>>, <<"W", 0, 1>> >>

\* directions = {"N": (-1, 0), "S": (1, 0), "E": (0, 1), "W": (0, -1)},
\* iterated in insertion order
directions == << <<"N", -1, 0>>, <<"S", 1, 0>>, <<"E", 0, 1>>, <<"W", 0, -1>> >>

----------------------------------------------------------------------------
\* heapq on (len(path), RobotState) tuples; heap positions are 1-based here

\* the heap entries compared by RobotState.__lt__ alone, as if the RobotState
\* had been pushed without its priority
ItemLessStateOnly(x, y) == StateLess(x[2], y[2])

\* tuple comparison x < y of two heap entries: first the priorities, then
\* RobotState.__lt__ (two distinct RobotState objects never compare equal)
ItemLess(x, y) == x[1] < y[1] \/ (x[1] = y[1] /\ StateLess(x[2], y[2]))

\* the new entry left at the end of the list, as list.append would
siftdownNone(heap, startpos, pos, newitem) == [heap EXCEPT ![pos] = newitem]

RECURSIVE siftdown(_, _, _, _)
siftdown(heap, startpos, pos, newitem) ==
    IF pos > startpos /\ ItemLess(newitem, heap[pos \div 2])
    THEN siftdown([heap EXCEPT ![pos] = heap[pos \div 2]], startpos, pos \div 2, newitem)
    ELSE [heap EXCEPT ![pos] = newitem]

RECURSIVE siftup(_, _, _, _)
siftup(heap, startpos, pos, newitem) ==
    LET endpos   == Len(heap)
        childpos == 2 * pos
        rightpos == childpos + 1
        c == IF rightpos <= endpos /\ ~ItemLess(heap[childpos], heap[rightpos])
             THEN rightpos ELSE childpos
    IN  IF childpos <= endpos
        THEN siftup([heap EXCEPT ![pos] = heap[c]], startpos, c, newitem)
        ELSE siftdown([heap EXCEPT ![pos] = newitem], startpos, pos, newitem)

heappush(heap, item) ==
    LET h == Append(heap, item) IN siftdown(h, 1, Len(h), item)

\* heappop returns heap[0] ...
heappopItem(heap) == heap[1]

\* ... and leaves the last entry sifted from the root
heappopRest(heap) ==
    IF Len(heap) = 1 THEN << >>
    ELSE LET lastelt == heap[Len(heap)]
             h == [SubSeq(heap, 1, Len(heap) - 1) EXCEPT ![1] = lastelt]
         IN  siftup(h, 1, 1, lastelt)

----------------------------------------------------------------------------
\* read_input: the world file as rows of characters

Chars == {"_", "#", "*", "@"}

Positions(r, c) == (0 .. r - 1) \X (0 .. c - 1)

\* the grid read_input returns: the starting cell is replaced by an empty cell
read_grid(text) ==
    [r \in DOMAIN text |->
        [c \in DOMAIN text[r] |-> IF text[r][c] = "@" THEN "_" ELSE text[r][c]]]

read_robot_pos(text, r, c) == CHOOSE p \in Positions(r, c) : text[p[1]][p[2]] = "@"

read_dirty_cells(text, r, c) == {p \in Positions(r, c) : text[p[1]][p[2]] = "*"}

\* the grid sizes and the world files of the model: one '@', at most MaxDirty '*'
Dims == {d \in (1 .. MaxCells) \X (1 .. MaxCells) : d[1] * d[2] <= MaxCells}

WorldFiles(r, c) ==
    {text \in [0 .. r - 1 -> [0 .. c - 1 -> Chars]] :
        /\ Cardinality({p \in Positions(r, c) : text[p[1]][p[2]] = "@"}) = 1
        /\ Cardinality(read_dirty_cells(text, r, c)) <= MaxDirty}

Algorithms == {"uniform-cost", "depth-first"}

----------------------------------------------------------------------------
\* the parts the two search loops share (the code repeats them in ucs and dfs)

\* vacuuming that forgets to record the "V" action
VacuumNoLabel(cur) ==
    IF cur.position \in cur.dirty_cells
    THEN RobotState(cur.position, cur.dirty_cells \ {cur.position}, cur.path)
    ELSE cur

\* a vacuum that records the V and leaves the cell in the dirty set
VacuumKeepDirty(cur) ==
    IF cur.position \in cur.dirty_cells
    THEN RobotState(cur.position, cur.dirty_cells, Append(cur.path, "V"))
    ELSE cur

\* "if cur.position in cur.dirty_cells": vacuum the current square
Vacuum(cur) ==
    IF cur.position \in cur.dirty_cells
    THEN RobotState(cur.position, cur.dirty_cells \ {cur.position}, Append(cur.path, "V"))
    ELSE cur

\* "if not cur.dirty_cells"
IsGoal(cur) == cur.dirty_cells = {}

\* the bounds test without the wall test
CanEnterNoWall(nr, nc) ==
    /\ 0 <= nr /\ nr < rows
    /\ 0 <= nc /\ nc < cols

\* "0 <= nr < rows and 0 <= nc < cols and world[nr][nc] != '#'"
CanEnter(nr, nc) ==
    /\ 0 <= nr /\ nr < rows
    /\ 0 <= nc /\ nc < cols
    /\ world[nr][nc] # "#"

\* no duplicate detection at all
NotExploredAlways(new_state, expl) == TRUE

\* "(new_state.position, new_state.dirty_cells) not in explored"
NotExplored(new_state, expl) == Key(new_state) \notin expl

\* a successor that does not record the move in its path
NewStateNoLabel(cur, i) ==
    RobotState(<<cur.position[1] + directions[i][2], cur.position[2] + directions[i][3]>>,
               cur.dirty_cells, cur.path)

\* the successor of cur in the i-th direction
NewState(cur, i) ==
    RobotState(<<cur.position[1] + directions[i][2], cur.position[2] + directions[i][3]>>,
               cur.dirty_cells, Append(cur.path, directions[i][1]))

SolvedResult(cur, g, e) == [kind |-> "Solved", path |-> cur.path, gen |-> g, exp |-> e]

ExhaustedResult(g, e) == [kind |-> "Exhausted", path |-> << >>, gen |-> g, exp |-> e]

----------------------------------------------------------------------------
\* ucs

\* the loop of ucs with "gen += 1" outside the test of explored
RECURSIVE ucsGenerateCountAll(_, _, _)
ucsGenerateCountAll(i, cur, acc) ==
    IF i > Len(directions) THEN acc
    ELSE LET new_state == NewState(cur, i)
         IN  IF ~CanEnter(new_state.position[1], new_state.position[2])
             THEN ucsGenerateCountAll(i + 1, cur, acc)
             ELSE IF NotExplored(new_state, acc.explored)
             THEN ucsGenerateCountAll(i + 1, cur,
                      [pq       |-> heappush(acc.pq, <<Len(new_state.path), new_state>>),
                       explored |-> acc.explored \cup {Key(new_state)},
                       gen      |-> acc.gen + 1,
                       inserted |-> acc.inserted \cup {Key(new_state)},
                       pushed   |-> Append(acc.pushed, [by |-> acc.by, state |-> new_state]),
                       by       |-> acc.by])
             ELSE ucsGenerateCountAll(i + 1, cur, [acc EXCEPT !.gen = acc.gen + 1])

\* "for action, (dr, dc) in directions.items()", from the i-th direction on;
\* acc holds pq, explored, gen and the history of inserted keys
RECURSIVE ucsGenerate(_, _, _)
ucsGenerate(i, cur, acc) ==
    IF i > Len(directions) THEN acc
    ELSE LET new_state == NewState(cur, i)
         IN  IF /\ CanEnter(new_state.position[1], new_state.position[2])
                /\ NotExplored(new_state, acc.explored)
             THEN ucsGenerate(i + 1, cur,
                      [pq       |-> heappush(acc.pq, <<Len(new_state.path), new_state>>),
                       explored |-> acc.explored \cup {Key(new_state)},
                       gen      |-> acc.gen + 1,
                       inserted |-> acc.inserted \cup {Key(new_state)},
                       pushed   |-> Append(acc.pushed, [by |-> acc.by, state |-> new_state]),
                       by       |-> acc.by])
             ELSE ucsGenerate(i + 1, cur, acc)

\* the goal branch of ucs printing the solution without returning
UcsSolvedNoReturn ==
    /\ pc = "search" /\ algorithm = "uniform-cost" /\ pq # << >>
    /\ LET popped == heappopItem(pq)[2]
           cur    == Vacuum(popped)
           acc    == ucsGenerate(1, cur,
                         [pq |-> heappopRest(pq), explored |-> explored,
                          gen |-> gen, inserted |-> inserted,
                          pushed |-> pushed, by |-> exp + 1])
       IN  /\ IsGoal(cur)
           /\ exp' = exp + 1
           /\ expanded' = Append(expanded, popped)
           /\ out' = Append(out, SolvedResult(cur, gen, exp + 1))
           /\ pq' = acc.pq
           /\ explored' = acc.explored
           /\ gen' = acc.gen
           /\ inserted' = acc.inserted
           /\ pushed' = acc.pushed
           /\ priorities' = Append(priorities, heappopItem(pq)[1])
    /\ UNCHANGED <<cols, rows, world, start, algorithm, stack, pc>>

\* one iteration of "while pq" that ends in the return of line 91
UcsSolved ==
    /\ pc = "search" /\ algorithm = "uniform-cost" /\ pq # << >>
    /\ LET popped == heappopItem(pq)[2]
           cur    == Vacuum(popped)
       IN  /\ IsGoal(cur)
           /\ exp' = exp + 1
           /\ pq' = heappopRest(pq)
           /\ expanded' = Append(expanded, popped)
           /\ out' = Append(out, SolvedResult(cur, gen, exp + 1))
           /\ pc' = "returned"
           /\ priorities' = Append(priorities, heappopItem(pq)[1])
    /\ UNCHANGED <<cols, rows, world, start, algorithm, stack, explored, gen, inserted,
                   pushed>>

\* one iteration of "while pq" that generates the new nodes
UcsExpand ==
    /\ pc = "search" /\ algorithm = "uniform-cost" /\ pq # << >>
    /\ LET popped == heappopItem(pq)[2]
           cur    == Vacuum(popped)
           acc    == ucsGenerate(1, cur,
                         [pq |-> heappopRest(pq), explored |-> explored,
                          gen |-> gen, inserted |-> inserted,
                          pushed |-> pushed, by |-> exp + 1])
       IN  /\ ~IsGoal(cur)
           /\ exp' = exp + 1
           /\ expanded' = Append(expanded, popped)
           /\ pq' = acc.pq
           /\ explored' = acc.explored
           /\ gen' = acc.gen
           /\ inserted' = acc.inserted
           /\ pushed' = acc.pushed
           /\ priorities' = Append(priorities, heappopItem(pq)[1])
    /\ UNCHANGED <<cols, rows, world, start, algorithm, stack, pc, out>>

\* the code after "while pq": all nodes expanded, sys.exit(1)
UcsExhausted ==
    /\ pc = "search" /\ algorithm = "uniform-cost" /\ pq = << >>
    /\ out' = Append(out, ExhaustedResult(gen, exp))
    /\ pc' = "exited"
    /\ UNCHANGED <<cols, rows, world, start, algorithm, pq, stack, explored, exp, gen,
                   expanded, inserted, pushed, priorities>>

----------------------------------------------------------------------------
\* dfs

\* the loop of dfs putting the new nodes at the bottom of the stack
RECURSIVE dfsGenerateFront(_, _, _)
dfsGenerateFront(i, cur, acc) ==
    IF i > Len(directions) THEN acc
    ELSE LET new_state == NewState(cur, i)
         IN  IF /\ CanEnter(new_state.position[1], new_state.position[2])
                /\ NotExplored(new_state, acc.explored)
             THEN dfsGenerateFront(i + 1, cur,
                      [stack    |-> <<new_state>> \o acc.stack,
                       explored |-> acc.explored \cup {Key(new_state)},
                       gen      |-> acc.gen + 1,
                       inserted |-> acc.inserted \cup {Key(new_state)},
                       pushed   |-> Append(acc.pushed, [by |-> acc.by, state |-> new_state]),
                       by       |-> acc.by])
             ELSE dfsGenerateFront(i + 1, cur, acc)

\* the loop of dfs with "gen += 1" outside the test of explored
RECURSIVE dfsGenerateCountAll(_, _, _)
dfsGenerateCountAll(i, cur, acc) ==
    IF i > Len(directions) THEN acc
    ELSE LET new_state == NewState(cur, i)
         IN  IF ~CanEnter(new_state.position[1], new_state.position[2])
             THEN dfsGenerateCountAll(i + 1, cur, acc)
             ELSE IF NotExplored(new_state, acc.explored)
             THEN dfsGenerateCountAll(i + 1, cur,
                      [stack    |-> Append(acc.stack, new_state),
                       explored |-> acc.explored \cup {Key(new_state)},
                       gen      |-> acc.gen + 1,
                       inserted |-> acc.inserted \cup {Key(new_state)},
                       pushed   |-> Append(acc.pushed, [by |-> acc.by, state |-> new_state]),
                       by       |-> acc.by])
             ELSE dfsGenerateCountAll(i + 1, cur, [acc EXCEPT !.gen = @ + 1])

RECURSIVE dfsGenerate(_, _, _)
dfsGenerate(i, cur, acc) ==
    IF i > Len(directions) THEN acc
    ELSE LET new_state == NewState(cur, i)
         IN  IF /\ CanEnter(new_state.position[1], new_state.position[2])
                /\ NotExplored(new_state, acc.explored)
             THEN dfsGenerate(i + 1, cur,
                      [stack    |-> Append(acc.stack, new_state),
                       explored |-> acc.explored \cup {Key(new_state)},
                       gen      |-> acc.gen + 1,
                       inserted |-> acc.inserted \cup {Key(new_state)},
                       pushed   |-> Append(acc.pushed, [by |-> acc.by, state |-> new_state]),
                       by       |-> acc.by])
             ELSE dfsGenerate(i + 1, cur, acc)

\* stack.pop(): the last element, and the stack without it
stackTop(s) == s[Len(s)]

\* a pop that reads the last element and leaves it on the stack
stackRestKeep(s) == s

stackRest(s) == SubSeq(s, 1, Len(s) - 1)

DfsSolved ==
    /\ pc = "search" /\ algorithm = "depth-first" /\ stack # << >>
    /\ LET popped == stackTop(stack)
           cur    == Vacuum(popped)
       IN  /\ IsGoal(cur)
           /\ exp' = exp + 1
           /\ stack' = stackRest(stack)
           /\ expanded' = Append(expanded, popped)
           /\ out' = Append(out, SolvedResult(cur, gen, exp + 1))
           /\ pc' = "returned"
    /\ UNCHANGED <<cols, rows, world, start, algorithm, pq, explored, gen, inserted,
                   pushed, priorities>>

DfsExpand ==
    /\ pc = "search" /\ algorithm = "depth-first" /\ stack # << >>
    /\ LET popped == stackTop(stack)
           cur    == Vacuum(popped)
           acc    == dfsGenerate(1, cur,
                         [stack |-> stackRest(stack), explored |-> explored,
                          gen |-> gen, inserted |-> inserted,
                          pushed |-> pushed, by |-> exp + 1])
       IN  /\ ~IsGoal(cur)
           /\ exp' = exp + 1
           /\ expanded' = Append(expanded, popped)
           /\ stack' = acc.stack
           /\ explored' = acc.explored
           /\ gen' = acc.gen
           /\ inserted' = acc.inserted
           /\ pushed' = acc.pushed
    /\ UNCHANGED <<cols, rows, world, start, algorithm, pq, pc, out, priorities>>

DfsExhausted ==
    /\ pc = "search" /\ algorithm = "depth-first" /\ stack = << >>
    /\ out' = Append(out, ExhaustedResult(gen, exp))
    /\ pc' = "exited"
    /\ UNCHANGED <<cols, rows, world, start, algorithm, pq, stack, explored, exp, gen,
                   expanded, inserted, pushed, priorities>>

----------------------------------------------------------------------------
\* main: read the world file, build the start state, run the algorithm

\* the program before main() has read anything
Init ==
    /\ rows = 0
    /\ cols = 0
    /\ world = << >>
    /\ start = RobotState(<<0, 0>>, {}, << >>)
    /\ algorithm = ""
    /\ pq = << >>
    /\ stack = << >>
    /\ explored = {}
    /\ exp = 0
    /\ gen = 0
    /\ pc = "main"
    /\ out = << >>
    /\ expanded = << >>
    /\ inserted = {}
    /\ pushed = << >>
    /\ priorities = << >>

\* main() up to the first test of the search loop: read_input, the start
\* state, and the initialisation of the locals of ucs or dfs
Main ==
    /\ pc = "main"
    /\ \E d \in Dims : \E text \in WorldFiles(d[1], d[2]) : \E alg \in Algorithms :
        LET s0 == RobotState(read_robot_pos(text, d[1], d[2]),
                             read_dirty_cells(text, d[1], d[2]), << >>)
        IN  /\ rows' = d[1]
            /\ cols' = d[2]
            /\ world' = read_grid(text)
            /\ start' = s0
            /\ algorithm' = alg
            /\ pq' = IF alg = "uniform-cost" THEN heappush(<< >>, <<0, s0>>) ELSE << >>
            /\ stack' = IF alg = "depth-first" THEN <<s0>> ELSE << >>
            /\ inserted' = {Key(s0)}
    /\ explored' = {}
    /\ exp' = 0
    /\ gen' = 0
    /\ pc' = "search"
    /\ UNCHANGED <<out, expanded, pushed, priorities>>

\* a direct call ucs(cols, rows, world, start) or dfs(cols, rows, world, start)
\* up to the first test of the search loop: the caller builds the start state,
\* whose dirty set may hold the start position itself
EngineCall ==
    /\ pc = "main"
    /\ \E d \in Dims : \E text \in WorldFiles(d[1], d[2]) : \E alg \in Algorithms :
       \E here \in BOOLEAN :
        LET pos   == read_robot_pos(text, d[1], d[2])
            dirty == read_dirty_cells(text, d[1], d[2]) \cup (IF here THEN {pos} ELSE {})
            s0    == RobotState(pos, dirty, << >>)
        IN  /\ Cardinality(dirty) <= MaxDirty
            /\ rows' = d[1]
            /\ cols' = d[2]
            /\ world' = read_grid(text)
            /\ start' = s0
            /\ algorithm' = alg
            /\ pq' = IF alg = "uniform-cost" THEN heappush(<< >>, <<0, s0>>) ELSE << >>
            /\ stack' = IF alg = "depth-first" THEN <<s0>> ELSE << >>
            /\ inserted' = {Key(s0)}
    /\ explored' = {}
    /\ exp' = 0
    /\ gen' = 0
    /\ pc' = "search"
    /\ UNCHANGED <<out, expanded, pushed, priorities>>

Next ==
    \/ Main
    \/ UcsSolved
    \/ UcsExpand
    \/ UcsExhausted
    \/ DfsSolved
    \/ DfsExpand
    \/ DfsExhausted

Spec == Init /\ [][Next]_vars

\* the search functions called directly rather than through main()
EngineNext ==
    \/ EngineCall
    \/ UcsSolved
    \/ UcsExpand
    \/ UcsExhausted
    \/ DfsSolved
    \/ DfsExpand
    \/ DfsExhausted

EngineSpec == Init /\ [][EngineNext]_vars

\* The program is single-threaded and has no suspension point: while it is in
\* main() or in a search loop it takes its next step. Every step of Next
\* changes exp or pc, and Next is enabled exactly when Running holds, so under
\* Spec this fairness is WF_vars(Next); it is stated on exp and pc so that
\* its enabling condition is the loop condition itself.
Running == pc \in {"main", "search"}

Advance ==
    /\ Running
    /\ pc' \in {"search", "returned", "exited"}
    /\ exp' \in {exp, exp + 1}

LiveSpec == Spec /\ WF_<<exp, pc>>(Advance)

----------------------------------------------------------------------------
\* The world model the claims speak about, stated without the search code

\* a passable in-bounds cell
Passable(p) ==
    /\ p \in Positions(rows, cols)
    /\ world[p[1]][p[2]] # "#"

\* N/S/E/W move one cell
Moved(p, a) ==
    CASE a = "N" -> <<p[1] - 1, p[2]>>
      [] a = "S" -> <<p[1] + 1, p[2]>>
      [] a = "E" -> <<p[1], p[2] + 1>>
      [] a = "W" -> <<p[1], p[2] - 1>>
      [] OTHER   -> p

\* replaying path from position p with the dirty set d: V removes the current
\* position from d; ok is lost as soon as a move leaves the grid or enters '#'
RECURSIVE Replay(_, _, _, _)
Replay(path, p, d, ok) ==
    IF path = << >> THEN [ok |-> ok, position |-> p, dirty |-> d]
    ELSE IF Head(path) = "V" THEN Replay(Tail(path), p, d \ {p}, ok)
    ELSE Replay(Tail(path), Moved(p, Head(path)), d, ok /\ Passable(Moved(p, Head(path))))

\* the cells reachable from the start through passable in-bounds cells
RECURSIVE ReachFrom(_)
ReachFrom(S) ==
    LET T == S \cup {q \in Positions(rows, cols) :
                        /\ Passable(q)
                        /\ \E p \in S : \E a \in {"N", "S", "E", "W"} : q = Moved(p, a)}
    IN  IF T = S THEN S ELSE ReachFrom(T)

ReachableCells == ReachFrom({start.position})

AllDirtyReachable == start.dirty_cells \subseteq ReachableCells

\* the least number of actions of a sequence that starts at the initial
\* position, stays on passable cells and cleans every dirty cell (-1: none):
\* breadth-first over (position, dirty set), a V allowed on any cell
ActionSuccessors(s) ==
    {<<s[1], s[2] \ {s[1]}>>} \cup
    {<<Moved(s[1], a), s[2]>> : a \in {a \in {"N", "S", "E", "W"} : Passable(Moved(s[1], a))}}

RECURSIVE MinActionsFrom(_, _, _)
MinActionsFrom(level, seen, k) ==
    IF \E s \in level : s[2] = {} THEN k
    ELSE LET next == (UNION {ActionSuccessors(s) : s \in level}) \ seen
         IN  IF next = {} THEN -1 ELSE MinActionsFrom(next, seen \cup next, k + 1)

MinActions ==
    MinActionsFrom({<<start.position, start.dirty_cells>>},
                   {<<start.position, start.dirty_cells>>}, 0)

Solved == pc = "returned" /\ Len(out) = 1 /\ out[1].kind = "Solved"

Exhausted == pc = "exited" /\ Len(out) = 1 /\ out[1].kind = "Exhausted"

----------------------------------------------------------------------------
\* C1: whenever a search (ucs or dfs) reports a solution, replaying the
\* reported action sequence from the initial position never leaves the grid,
\* never enters a '#' cell, and ends with no dirty cell remaining.
C1_SolutionReplays ==
    \A i \in 1 .. Len(out) :
        out[i].kind = "Solved" =>
            LET r == Replay(out[i].path, start.position, start.dirty_cells, TRUE)
            IN  r.ok /\ r.dirty = {}

\* a reported solution that cleans two cells in a world with a wall
C1_Witness ==
    /\ Solved
    /\ Cardinality(start.dirty_cells) = 2
    /\ Len(out[1].path) >= 5
    /\ \E p \in Positions(rows, cols) : world[p[1]][p[2]] = "#"

\* C2: when ucs reports a solution, its number of actions (moves plus V) is
\* the least possible for the world.
C2_UcsMinimal ==
    (algorithm = "uniform-cost" /\ Solved) => Len(out[1].path) = MinActions

\* a ucs solution of a world with two dirty cells that dfs would not solve
\* as cheaply: at least three moves
C2_Witness ==
    /\ algorithm = "uniform-cost"
    /\ Solved
    /\ Cardinality(start.dirty_cells) = 2
    /\ Len(out[1].path) >= 5

\* C3: within one search run no two expanded nodes carry the same
\* (position, remaining dirty cells) key when they are popped.
C3_NoDuplicateExpansion ==
    \A i, j \in 1 .. Len(expanded) :
        i # j => Key(expanded[i]) # Key(expanded[j])

\* C4: in a world where some dirty cell cannot be reached from the start,
\* neither ucs nor dfs ever reports a solution, and the run ends in the
\* Exhausted outcome (exit status 1).
C4_UnreachableExhausts ==
    /\ [](~AllDirtyReachable => \A i \in 1 .. Len(out) : out[i].kind # "Solved")
    /\ [](~AllDirtyReachable /\ pc \notin {"main", "search"} => Exhausted)
    /\ (~AllDirtyReachable ~> Exhausted)

\* an Exhausted end after a reachable dirty cell was cleaned on the way
C4_Witness ==
    /\ Exhausted
    /\ ~AllDirtyReachable
    /\ \E d \in start.dirty_cells : d \in ReachableCells
    /\ out[1].gen >= 3

\* C5: in a world where every dirty cell can be reached from the start, dfs
\* terminates with a solution, never Exhausted, and the solution replays
\* validly (it need not be the shortest).
C5_DfsComplete ==
    /\ [](algorithm = "depth-first" /\ AllDirtyReachable => pc # "exited")
    /\ [](algorithm = "depth-first" /\ AllDirtyReachable /\ pc \notin {"main", "search"} =>
            /\ Solved
            /\ Replay(out[1].path, start.position, start.dirty_cells, TRUE).ok
            /\ Replay(out[1].path, start.position, start.dirty_cells, TRUE).dirty = {})
    /\ (algorithm = "depth-first" /\ AllDirtyReachable ~> Solved)

\* a dfs solution longer than the shortest one
C5_Witness ==
    /\ algorithm = "depth-first"
    /\ Solved
    /\ Cardinality(start.dirty_cells) = 2
    /\ Len(out[1].path) > MinActions

\* C6: every search terminates, with exactly one outcome: a solution
\* (return) or Exhausted (exit), and nothing is reported before the end.
C6_OneOutcome ==
    /\ <>(pc \in {"returned", "exited"})
    /\ [](pc \in {"main", "search"} => out = << >>)
    /\ [](pc = "returned" => Solved)
    /\ [](pc = "exited" => Exhausted)

\* a ucs run that ended with a solution after several expansions
C6_Witness ==
    /\ algorithm = "uniform-cost"
    /\ Solved
    /\ out[1].exp >= 4

\* C7: the explored set, and with it the generated counter, never exceeds
\* (number of grid cells) * 2^(number of initially dirty cells).
C7_KeySpaceBound ==
    /\ Cardinality(explored) <= rows * cols * 2 ^ Cardinality(start.dirty_cells)
    /\ gen <= rows * cols * 2 ^ Cardinality(start.dirty_cells)

\* an exhausted search that generated more keys than the grid has cells
C7_Witness ==
    /\ pc = "exited"
    /\ gen > rows * cols
    /\ gen = Cardinality(explored)

\* C8 (two runs on the same world and strategy give the same outcome) speaks
\* about pairs of behaviours. Every action above is a function of the state
\* (directions is iterated in insertion order, heappop returns heap[0]), so
\* no formula over one behaviour states it.

\* C9: on the 1-row, 3-column world "_*@", ucs reports exactly [W, V] with
\* generated >= 1 and expanded >= 1.
C9_Scenario ==
    (/\ algorithm = "uniform-cost"
     /\ rows = 1 /\ cols = 3
     /\ world[0][0] = "_" /\ world[0][1] = "*" /\ world[0][2] = "_"
     /\ start.position = <<0, 2>>
     /\ pc \notin {"main", "search"})
    => (/\ Solved
        /\ out[1].path = <<"W", "V">>
        /\ out[1].gen >= 1
        /\ out[1].exp >= 1)

\* the end of the ucs run on "_*@"
C9_Witness ==
    /\ algorithm = "uniform-cost"
    /\ rows = 1 /\ cols = 3
    /\ world[0][0] = "_" /\ world[0][1] = "*" /\ world[0][2] = "_"
    /\ start.position = <<0, 2>>
    /\ pc = "returned"
    /\ out[1].path = <<"W", "V">>

\* C10: the explored set is exactly the set of keys of the states inserted
\* into the frontier so far, the seed included; in particular the key of
\* every state in the frontier is in the explored set.
C10_ExploredIsInserted ==
    /\ explored = inserted
    /\ \A i \in 1 .. Len(pq) : Key(pq[i][2]) \in explored
    /\ \A i \in 1 .. Len(stack) : Key(stack[i]) \in explored

----------------------------------------------------------------------------
\* C11: exp is the number of pops so far and gen the number of successors
\* pushed so far; a vacuum on the popped node adds to neither, so the counts
\* reported with a solution are the pops and pushes, whatever the number of
\* V actions in it.
C11_Counters ==
    /\ exp = Len(expanded)
    /\ gen = Len(pushed)
    /\ \A i \in 1 .. Len(out) :
           out[i].exp = Len(expanded) /\ out[i].gen = Len(pushed)

\* the number of V actions of a path
RECURSIVE CountV(_)
CountV(path) ==
    IF path = << >> THEN 0
    ELSE (IF Head(path) = "V" THEN 1 ELSE 0) + CountV(Tail(path))

\* a solution with two V actions, reported with the pops and pushes alone
C11_Witness ==
    /\ Solved
    /\ CountV(out[1].path) = 2
    /\ out[1].gen = Len(pushed) /\ out[1].gen >= 3
    /\ out[1].exp = Len(expanded)

\* C12: in ucs the entry the next pop returns has the least stored path
\* length of the frontier, and the stored path lengths of the entries popped
\* so far never decrease.
C12_PopsMinimum ==
    /\ pq # << >> => \A i \in 1 .. Len(pq) : heappopItem(pq)[1] <= pq[i][1]
    /\ \A i, j \in 1 .. Len(priorities) : i <= j => priorities[i] <= priorities[j]

\* a ucs run that has popped entries of three different lengths and holds
\* entries of two lengths
C12_Witness ==
    /\ algorithm = "uniform-cost"
    /\ Cardinality({priorities[i] : i \in 1 .. Len(priorities)}) >= 3
    /\ Cardinality({pq[i][1] : i \in 1 .. Len(pq)}) >= 2

\* the place of a direction label in the order N, S, E, W
DirIndex(a) == CHOOSE i \in 1 .. 4 : <<"N", "S", "E", "W">>[i] = a

LastAction(s) == s.path[Len(s.path)]

\* the successors pushed by the n-th expansion, as indices of pushed
PushedBy(n) == {k \in 1 .. Len(pushed) : pushed[k].by = n}

\* the pushed nodes still in the frontier when the n-th expansion starts
WaitingAt(n) ==
    {k \in 1 .. Len(pushed) :
        /\ pushed[k].by < n
        /\ \A m \in 1 .. n - 1 : expanded[m] # pushed[k].state}

SetMax(S) == CHOOSE x \in S : \A y \in S : y <= x

\* C13: in dfs the node expanded after an expansion that pushed successors
\* is the last of them in the order N, S, E, W; after an expansion that
\* pushed none it is the most recently pushed node still on the stack.
C13_DfsOrder ==
    algorithm = "depth-first" =>
        \A n \in 2 .. Len(expanded) :
            /\ PushedBy(n - 1) # {} =>
                   \E k \in PushedBy(n - 1) :
                       /\ expanded[n] = pushed[k].state
                       /\ \A j \in PushedBy(n - 1) :
                              DirIndex(LastAction(pushed[j].state))
                                  <= DirIndex(LastAction(pushed[k].state))
            /\ PushedBy(n - 1) = {} =>
                   /\ WaitingAt(n) # {}
                   /\ expanded[n] = pushed[SetMax(WaitingAt(n))].state

\* a dfs run that backtracked: an expansion that pushed nothing, followed by
\* another, and an expansion that pushed West and another direction
C13_Witness ==
    /\ algorithm = "depth-first"
    /\ \E n \in 2 .. Len(expanded) : PushedBy(n - 1) = {}
    /\ \E n \in 2 .. Len(expanded) :
           /\ Cardinality(PushedBy(n - 1)) >= 2
           /\ LastAction(expanded[n]) = "W"

\* the successors C14 expects of the expansion of popped when expl is the
\* explored set: stated with Moved and Passable, not with the search code
ExpectedSuccessors(popped, expl) ==
    LET vacuumed == popped.position \in popped.dirty_cells
        dirty    == popped.dirty_cells \ {popped.position}
        path     == IF vacuumed THEN Append(popped.path, "V") ELSE popped.path
        cand     == [i \in 1 .. 4 |->
                        LET a == <<"N", "S", "E", "W">>[i]
                        IN  [position    |-> Moved(popped.position, a),
                             dirty_cells |-> dirty,
                             path        |-> Append(path, a)]]
    IN  SelectSeq(cand, LAMBDA st : /\ Passable(st.position)
                                    /\ <<st.position, st.dirty_cells>> \notin expl)

\* C14: an expansion of a non-goal node pushes, in the order N, S, E, W, one
\* successor for each neighbouring cell that is inside the grid, not '#' and
\* not yet explored: the neighbour's position, the dirty set of the
\* vacuum-transformed node, its path with the direction appended; nothing is
\* pushed for a cell outside the grid or a wall.
C14_Successors ==
    [][(pc = "search" /\ pc' = "search" /\ exp' = exp + 1) =>
        LET popped == expanded'[Len(expanded')]
            want   == ExpectedSuccessors(popped, explored)
        IN  /\ Len(pushed') = Len(pushed) + Len(want)
            /\ \A k \in 1 .. Len(want) :
                   pushed'[Len(pushed) + k] = [by |-> exp', state |-> want[k]]
            /\ algorithm = "depth-first" =>
                   stack' = SubSeq(stack, 1, Len(stack) - 1) \o want
            /\ algorithm = "uniform-cost" =>
                   /\ Len(pq') = Len(pq) - 1 + Len(want)
                   /\ \A k \in 1 .. Len(want) :
                          \E i \in 1 .. Len(pq') : pq'[i] = <<Len(want[k].path), want[k]>>]_vars

\* an expansion of a node standing on a dirty cell next to a wall that pushed
\* two successors
C14_Witness ==
    \E n \in 1 .. Len(expanded) :
        /\ expanded[n].position \in expanded[n].dirty_cells
        /\ Cardinality(PushedBy(n)) = 2
        /\ \E a \in {"N", "S", "E", "W"} :
               LET q == Moved(expanded[n].position, a)
               IN  q \in Positions(rows, cols) /\ world[q[1]][q[2]] = "#"

\* C15: the generated counter equals the size of the explored set, no key is
\* pushed as a successor twice, and the explored set never loses a key.
C15_GeneratedIsExplored ==
    /\ [](/\ gen = Cardinality(explored)
          /\ \A j, k \in 1 .. Len(pushed) :
                 Key(pushed[j].state) = Key(pushed[k].state) => j = k)
    /\ [][explored \subseteq explored']_vars

\* a search in progress that has pushed four keys, the start key among them
C15_Witness ==
    /\ pc = "search"
    /\ gen >= 4
    /\ gen = Cardinality(explored)
    /\ <<start.position, start.dirty_cells>> \in explored

\* the nodes waiting in the frontier of the running strategy
FrontierNodes ==
    {pq[i][2] : i \in 1 .. Len(pq)} \cup {stack[i] : i \in 1 .. Len(stack)}

\* C16: replaying the action sequence of any frontier node from the initial
\* position and dirty set, vacuuming exactly at each V, yields the node's
\* position and remaining dirty set; so its dirty set is a subset of the
\* initial one, and in ucs the stored priority is the length of its sequence.
C16_FrontierReplays ==
    /\ \A n \in FrontierNodes :
           LET r == Replay(n.path, start.position, start.dirty_cells, TRUE)
           IN  /\ r.position = n.position
               /\ r.dirty = n.dirty_cells
               /\ n.dirty_cells \subseteq start.dirty_cells
    /\ \A i \in 1 .. Len(pq) : pq[i][1] = Len(pq[i][2].path)

\* a frontier holding a node that has vacuumed a cell next to a node that has
\* not, in a ucs heap of three entries or a dfs stack of three entries
C16_Witness ==
    /\ pc = "search"
    /\ Cardinality(FrontierNodes) >= 3
    /\ \E n \in FrontierNodes :
           n.dirty_cells # start.dirty_cells /\ n.dirty_cells # {}
    /\ \E n \in FrontierNodes : n.dirty_cells = start.dirty_cells /\ Len(n.path) >= 2

\* C17: expanded <= generated + 1 in every state of either strategy; when the
\* search ends Exhausted the reported counts satisfy expanded = generated + 1:
\* the seed and every generated node have been popped exactly once.
C17_ExpandedBound ==
    /\ exp <= gen + 1
    /\ Exhausted =>
           /\ out[1].exp = out[1].gen + 1
           /\ Len(expanded) = Len(pushed) + 1
           /\ expanded[1] = start
           /\ \A k \in 1 .. Len(pushed) :
                  Cardinality({m \in 1 .. Len(expanded) : expanded[m] = pushed[k].state}) = 1

\* an exhausted search that generated at least four nodes
C17_Witness ==
    /\ Exhausted
    /\ out[1].gen >= 4
    /\ out[1].exp = out[1].gen + 1

\* the keys one expansion of the key k pushes when none is explored: none
\* from a goal, else the passable neighbours with the vacuumed dirty set
KeySuccessors(k) ==
    LET dirty == k[2] \ {k[1]}
    IN  IF dirty = {} THEN {}
        ELSE {<<Moved(k[1], a), dirty>> : a \in {b \in {"N", "S", "E", "W"} : Passable(Moved(k[1], b))}}

RECURSIVE KeyClosure(_)
KeyClosure(S) ==
    LET T == S \cup UNION {KeySuccessors(k) : k \in S}
    IN  IF T = S THEN S ELSE KeyClosure(T)

\* the keys reachable from the start key in one or more expansions: a set
\* that depends on the world alone, not on the strategy
ReachableKeys == KeyClosure(KeySuccessors(<<start.position, start.dirty_cells>>))

\* C18: on a world where the search ends Exhausted, ucs and dfs report the
\* same generated and expanded counts, because both push exactly the same set
\* of keys: whichever strategy ran, the keys it pushed are the keys reachable
\* from the start key, generated is their number and expanded one more.
C18_SameCountsOnExhausted ==
    Exhausted =>
        /\ {Key(pushed[k].state) : k \in 1 .. Len(pushed)} = ReachableKeys
        /\ out[1].gen = Cardinality(ReachableKeys)
        /\ out[1].exp = Cardinality(ReachableKeys) + 1

\* a dfs search that ended Exhausted after pushing five or more keys in a
\* different order than their path lengths
C18_Witness ==
    /\ Exhausted
    /\ algorithm = "depth-first"
    /\ Cardinality(ReachableKeys) >= 5
    /\ \E j, k \in 1 .. Len(expanded) :
           j < k /\ Len(expanded[j].path) > Len(expanded[k].path)

\* every node the search has created: the seed and the pushed successors
AllNodes == {start} \cup {pushed[k].state : k \in 1 .. Len(pushed)}

\* a parent x standing on a still-dirty cell and a parent z standing on a
\* clean cell that both can generate the same key: they have a common
\* passable neighbour and z holds the dirty set x has after its vacuum
SameChildKey(x, z) ==
    /\ x.position \in x.dirty_cells
    /\ z.position \notin z.dirty_cells
    /\ z.dirty_cells = x.dirty_cells \ {x.position}
    /\ \E a, b \in {"N", "S", "E", "W"} :
           /\ Moved(x.position, a) = Moved(z.position, b)
           /\ Passable(Moved(x.position, a))

\* C19: in ucs, of frontier nodes with equal stored path length one with
\* strictly fewer remaining dirty cells is popped before one with more: the
\* popped entry is least in (length, number of dirty cells) and the pops of
\* one length come in non-decreasing number of dirty cells. Hence no key
\* generated from a parent standing on a dirty cell gets a larger length than
\* an equal-priority parent standing on a clean cell would have given it; in
\* fact two such parents never have equal priority, as every V and every move
\* changes the parity of the length.
C19_TieBreak ==
    algorithm = "uniform-cost" =>
        /\ \A i \in 1 .. Len(pq) :
               \/ pq[1][1] < pq[i][1]
               \/ /\ pq[1][1] = pq[i][1]
                  /\ Cardinality(pq[1][2].dirty_cells) <= Cardinality(pq[i][2].dirty_cells)
        /\ \A m, n \in 1 .. Len(expanded) :
               (m < n /\ priorities[m] = priorities[n]) =>
                   Cardinality(expanded[m].dirty_cells) <= Cardinality(expanded[n].dirty_cells)
        /\ \A k \in 1 .. Len(pushed) : \A z \in AllNodes :
               LET x == expanded[pushed[k].by]
                   K == pushed[k].state
               IN  (/\ SameChildKey(x, z)
                    /\ Len(z.path) = Len(x.path)
                    /\ \E b \in {"N", "S", "E", "W"} : Moved(z.position, b) = K.position)
                   => Len(K.path) <= Len(z.path) + 1
        /\ \A x, z \in AllNodes :
               SameChildKey(x, z) => (Len(x.path) + Len(z.path)) % 2 = 1

\* a ucs heap that holds two entries of equal length and different numbers of
\* dirty cells, after a pop of a node on a dirty cell while a node on a clean
\* cell could give the same key
C19_Witness ==
    /\ algorithm = "uniform-cost"
    /\ pc = "search"
    /\ \E i \in 2 .. Len(pq) :
           /\ pq[1][1] = pq[i][1]
           /\ Cardinality(pq[1][2].dirty_cells) < Cardinality(pq[i][2].dirty_cells)
    /\ \E m \in 1 .. Len(expanded) : \E z \in AllNodes : SameChildKey(expanded[m], z)

\* C20: with an empty initial dirty set both strategies report a solution
\* with an empty action sequence, generated = 0 and expanded = 1, and generate
\* no successor; with the start position in the initial dirty set the first
\* action of any reported solution is V.
C20_EdgeCases ==
    /\ start.dirty_cells = {} =>
           /\ gen = 0 /\ pushed = << >> /\ explored = {} /\ exp <= 1
           /\ pc \notin {"main", "search"} =>
                  out = <<[kind |-> "Solved", path |-> << >>, gen |-> 0, exp |-> 1]>>
    /\ \A i \in 1 .. Len(out) :
           (out[i].kind = "Solved" /\ start.position \in start.dirty_cells) =>
               /\ Len(out[i].path) >= 1
               /\ out[i].path[1] = "V"

\* a solution of a world with two dirty cells, one of them under the robot
C20_Witness ==
    /\ Solved
    /\ start.position \in start.dirty_cells
    /\ Cardinality(start.dirty_cells) = 2
    /\ out[1].path[1] = "V"
    /\ Len(out[1].path) >= 4

====
